---- MODULE Spec2Model ----
(***************************************************************************)
(* Model of the Redis-like asyncio server of src/app/server.py together    *)
(* with its RESP2 parser (src/app/parser.py) and encoder                   *)
(* (src/app/protocol.py).                                                  *)
(*                                                                         *)
(* A byte string is a sequence of one-byte tokens ("CR" and "LF" stand for *)
(* the two control bytes).  Every connection is one asyncio task; a task   *)
(* is a stack of coroutine frames and each action advances one task from   *)
(* one await to the next.  Time is the monotonic clock in milliseconds.    *)
(***************************************************************************)
EXTENDS Integers, Sequences, FiniteSets, TLC

(* ---------------------------- bounds ----------------------------------- *)
NumConns == 2
MaxCmds == 2
MaxClock == 2
MaxLen == 2

Conns == 1..NumConns

(* ---------------------------- bytes ------------------------------------ *)
CRLF == <<"CR", "LF">>
Digits == {"0", "1", "2", "3", "4", "5", "6", "7", "8", "9"}
Whitespace == {" ", "CR", "LF"}
DigitVal == [d \in Digits |->
               CASE d = "0" -> 0 [] d = "1" -> 1 [] d = "2" -> 2 [] d = "3" -> 3
                 [] d = "4" -> 4 [] d = "5" -> 5 [] d = "6" -> 6 [] d = "7" -> 7
                 [] d = "8" -> 8 [] d = "9" -> 9]
DigitChar == <<"0", "1", "2", "3", "4", "5", "6", "7", "8", "9">>
ToUpper == [b \in {"e", "g", "i", "n", "p", "s", "t", "x"} |->
               CASE b = "e" -> "E" [] b = "g" -> "G" [] b = "i" -> "I"
                 [] b = "n" -> "N" [] b = "p" -> "P" [] b = "s" -> "S"
                 [] b = "t" -> "T" [] b = "x" -> "X"]

upper(bs) == [i \in 1..Len(bs) |-> IF bs[i] \in DOMAIN ToUpper THEN ToUpper[bs[i]] ELSE bs[i]]

Drop(s, n) == IF n >= Len(s) THEN <<>> ELSE SubSeq(s, n + 1, Len(s))
Take(s, n) == IF n >= Len(s) THEN s ELSE SubSeq(s, 1, n)

RECURSIVE Concat(_)
Concat(ss) == IF ss = <<>> THEN <<>> ELSE Head(ss) \o Concat(Tail(ss))

RECURSIVE Reverse(_)
Reverse(s) == IF s = <<>> THEN <<>> ELSE Append(Reverse(Tail(s)), Head(s))

(* str(n).encode() for an integer n *)
RECURSIVE NatStr(_)
NatStr(n) == IF n < 10 THEN <<DigitChar[n + 1]>> ELSE Append(NatStr(n \div 10), DigitChar[(n % 10) + 1])
IntStr(n) == IF n < 0 THEN <<"-">> \o NatStr(0 - n) ELSE NatStr(n)

(* bytes.strip() *)
RECURSIVE LStrip(_)
LStrip(s) == IF s # <<>> /\ Head(s) \in Whitespace THEN LStrip(Tail(s)) ELSE s
strip(s) == Reverse(LStrip(Reverse(LStrip(s))))

(* int(b): surrounding whitespace is ignored, then an optional sign and at *)
(* least one decimal digit; anything else raises ValueError.               *)
RECURSIVE DigitsVal(_, _)
DigitsVal(s, acc) == IF s = <<>> THEN acc ELSE DigitsVal(Tail(s), 10 * acc + DigitVal[Head(s)])
IsDigits(s) == s # <<>> /\ \A i \in 1..Len(s) : s[i] \in Digits
ParseInt(b) ==
    LET s == strip(b)
        signed == s # <<>> /\ Head(s) \in {"-", "+"}
        body == IF signed THEN Tail(s) ELSE s
    IN  IF ~IsDigits(body) THEN [ok |-> FALSE, n |-> 0]
        ELSE [ok |-> TRUE, n |-> IF signed /\ Head(s) = "-" THEN 0 - DigitsVal(body, 0) ELSE DigitsVal(body, 0)]

(* ---------------------------- protocol.py ------------------------------ *)
encode_bulk_string(data) == <<"$">> \o NatStr(Len(data)) \o CRLF \o data \o CRLF
encode_integer(n) == <<":">> \o IntStr(n) \o CRLF
encode_array(data) ==
    <<"*">> \o NatStr(Len(data)) \o CRLF
        \o Concat([i \in 1..Len(data) |-> <<"$">> \o NatStr(Len(data[i])) \o CRLF \o data[i] \o CRLF])
Err(message) == <<"-", "E", "R", "R", " ">> \o message \o CRLF

PONG == <<"+", "P", "O", "N", "G">> \o CRLF
OK == <<"+", "O", "K">> \o CRLF
NBS == <<"$", "-", "1">> \o CRLF
UNKNOWN_COMMAND_MESSAGE == <<"Unknown command">>
WRONG_VALUE_MESSAGE == <<"Operation against a key holding the wrong kind of value">>
INVALID_LITERAL_MESSAGE == <<"invalid literal for int()">>
CMD_PING == <<"P", "I", "N", "G">>
CMD_ECHO == <<"E", "C", "H", "O">>
CMD_SET == <<"S", "E", "T">>
CMD_GET == <<"G", "E", "T">>
ARG_PX == <<"P", "X">>
CMD_RPUSH == <<"R", "P", "U", "S", "H">>
CMD_LRANGE == <<"L", "R", "A", "N", "G", "E">>
CMD_LPUSH == <<"L", "P", "U", "S", "H">>
CMD_LLEN == <<"L", "L", "E", "N">>
CMD_LPOP == <<"L", "P", "O", "P">>

(* ---------------------------- parser.py -------------------------------- *)
(* Index of the first byte after the first CRLF of buf, 0 when there is    *)
(* none: StreamReader.readuntil(b"\r\n") returns buf[1..i-1].              *)
RECURSIVE FindCRLF(_, _)
FindCRLF(buf, i) ==
    IF i + 1 > Len(buf) THEN 0
    ELSE IF buf[i] = "CR" /\ buf[i + 1] = "LF" THEN i + 2
    ELSE FindCRLF(buf, i + 1)

(* One read of the stream: "wait" when the bytes have not arrived and the  *)
(* peer has not closed, "incomplete" for IncompleteReadError.              *)
readuntil(buf, eof) ==
    LET e == FindCRLF(buf, 1)
    IN  IF e = 0 THEN [st |-> IF eof THEN "incomplete" ELSE "wait", data |-> <<>>, rest |-> buf]
        ELSE [st |-> "ok", data |-> SubSeq(buf, 1, e - 1), rest |-> Drop(buf, e - 1)]

(* mutant: one byte more than n must be buffered *)
readexactly_OffByOne(buf, eof, n) ==
    IF n < 0 THEN [st |-> "ValueError", data |-> <<>>, rest |-> buf]
    ELSE IF Len(buf) <= n THEN [st |-> IF eof THEN "incomplete" ELSE "wait", data |-> <<>>, rest |-> buf]
    ELSE [st |-> "ok", data |-> Take(buf, n), rest |-> Drop(buf, n)]

readexactly(buf, eof, n) ==
    IF n < 0 THEN [st |-> "ValueError", data |-> <<>>, rest |-> buf]
    ELSE IF Len(buf) < n THEN [st |-> IF eof THEN "incomplete" ELSE "wait", data |-> <<>>, rest |-> buf]
    ELSE [st |-> "ok", data |-> Take(buf, n), rest |-> Drop(buf, n)]

(* mutant: the `$` prefix of the length line is not checked *)
read_bulk_string_NoPrefixCheck(buf, eof) ==
    LET l == readuntil(buf, eof)
        len == ParseInt(Tail(l.data))
        d == readexactly(l.rest, eof, len.n)
        t == readexactly(d.rest, eof, 2)
        fail(s, r) == [st |-> s, data |-> <<>>, rest |-> r]
    IN  IF l.st = "wait" THEN fail("wait", buf)
        ELSE IF l.st = "incomplete" THEN fail("None", buf)
        ELSE IF ~len.ok THEN fail("ValueError", l.rest)
        ELSE IF d.st = "wait" THEN fail("wait", buf)
        ELSE IF d.st = "incomplete" THEN fail("None", l.rest)
        ELSE IF d.st = "ValueError" THEN fail("ValueError", l.rest)
        ELSE IF t.st = "wait" THEN fail("wait", buf)
        ELSE IF t.st = "incomplete" THEN fail("None", d.rest)
        ELSE [st |-> "data", data |-> d.data, rest |-> t.rest]

(* st is "data" (a bulk string was read), "None", "wait" or "ValueError"   *)
read_bulk_string(buf, eof) ==
    LET l == readuntil(buf, eof)
        len == ParseInt(Tail(l.data))
        d == readexactly(l.rest, eof, len.n)
        t == readexactly(d.rest, eof, 2)
        fail(s, r) == [st |-> s, data |-> <<>>, rest |-> r]
    IN  IF l.st = "wait" THEN fail("wait", buf)
        ELSE IF l.st = "incomplete" THEN fail("None", buf)
        ELSE IF Head(l.data) # "$" THEN fail("None", l.rest)
        ELSE IF ~len.ok THEN fail("ValueError", l.rest)
        ELSE IF d.st = "wait" THEN fail("wait", buf)
        ELSE IF d.st = "incomplete" THEN fail("None", l.rest)
        ELSE IF d.st = "ValueError" THEN fail("ValueError", l.rest)
        ELSE IF t.st = "wait" THEN fail("wait", buf)
        ELSE IF t.st = "incomplete" THEN fail("None", d.rest)
        ELSE [st |-> "data", data |-> d.data, rest |-> t.rest]

RECURSIVE ReadElements(_, _, _, _)
ReadElements(buf, eof, n, parts) ==
    IF n <= 0 THEN [st |-> "parts", parts |-> parts, rest |-> buf]
    ELSE LET b == read_bulk_string(buf, eof)
         IN  IF b.st = "data" THEN ReadElements(b.rest, eof, n - 1, Append(parts, b.data))
             ELSE [st |-> b.st, parts |-> <<>>, rest |-> b.rest]

(* st is "parts" (a deque was returned), "None", "wait" or "ValueError"    *)
parser(buf, eof) ==
    LET l == readuntil(buf, eof)
        n_arr == ParseInt(SubSeq(l.data, 2, Len(l.data) - 2))
        fail(s, r) == [st |-> s, parts |-> <<>>, rest |-> r]
    IN  IF l.st = "wait" THEN fail("wait", buf)
        ELSE IF l.st = "incomplete" THEN fail("None", buf)
        ELSE IF Head(l.data) # "*" THEN fail("None", l.rest)
        ELSE IF ~n_arr.ok THEN fail("ValueError", l.rest)
        ELSE LET r == ReadElements(l.rest, eof, n_arr.n, <<>>)
             IN  IF r.st = "wait" THEN fail("wait", buf) ELSE r

(* ---------------------------- values ----------------------------------- *)
NoneV == [t |-> "None"]
Bytes(b) == [t |-> "bytes", v |-> b]
Deque(s) == [t |-> "deque", v |-> s]
List(s) == [t |-> "list", v |-> s]
IntV(n) == [t |-> "int", v |-> n]
Float(n) == [t |-> "float", v |-> n]
Tuple(value, expiry) == [t |-> "tuple", value |-> value, expiry |-> expiry]
Raise(e) == [t |-> "raise", v |-> e]

(* Python truth value of an Optional[float] / Optional[tuple] *)
Truthy(x) == x.t # "None" /\ ~(x.t = "float" /\ x.v = 0)
Max(a, b) == IF a >= b THEN a ELSE b
Min(a, b) == IF a <= b THEN a ELSE b

(* ---------------------------- client input ----------------------------- *)
K1 == <<"k">>
K2 == <<"j">>
BadArrayPrefix == <<"+", "1">> \o CRLF \o encode_bulk_string(CMD_PING)
BadBulkPrefix == <<"*", "1">> \o CRLF \o <<"+", "4">> \o CRLF \o CMD_PING \o CRLF
NonNumericLength == <<"*", "1">> \o CRLF \o <<"$", "x">> \o CRLF \o CMD_PING \o CRLF
NegativeLength == <<"*", "2">> \o CRLF \o encode_bulk_string(<<"a", "b", "c">>) \o <<"$", "-", "5">> \o CRLF
EmptyFrame == <<"*", "0">> \o CRLF
Truncated == <<"*", "1">> \o CRLF \o <<"$", "4">> \o CRLF \o <<"P", "I">>
BadTerminator == <<"*", "1">> \o CRLF \o <<"$", "4">> \o CRLF \o CMD_PING \o <<"x", "y">>

(* frames that are not an array of bulk strings *)
Malformed == {BadArrayPrefix, BadBulkPrefix, NonNumericLength, NegativeLength}

(* what the clients of one run send: every run draws its frames from one   *)
(* of these workloads                                                      *)
DispatchCmds == {
    <<CMD_PING>>, << <<"p", "i", "n", "g">> >>, <<CMD_PING, <<"x">> >>,
    <<CMD_ECHO, <<"h", "i">> >>, <<CMD_ECHO>>, << <<"F", "O", "O">> >>, <<CMD_GET>> }
ScalarCmds == {
    <<CMD_SET, K1, <<"v">> >>, <<CMD_SET, K1, <<"v">>, ARG_PX, <<"1">> >>,
    <<CMD_SET, K1, <<"v">>, ARG_PX, <<"x">> >>, <<CMD_SET, K1, <<"v">>, <<"x">> >>,
    <<CMD_GET, K1>>, <<CMD_GET, K1, <<"x">> >>, <<CMD_LLEN, K1>> }
ListCmds == {
    <<CMD_RPUSH, K1, <<"a">> >>, <<CMD_RPUSH, K1, <<"b">> >>, <<CMD_LPUSH, K1, <<"a">> >>,
    <<CMD_LRANGE, K1, <<"0">>, <<"-", "1">> >>, <<CMD_LRANGE, K1, <<"x">>, <<"1">> >>,
    <<CMD_LLEN, K1>>, <<CMD_LPOP, K1>> }
TypeCmds == {
    <<CMD_SET, K1, <<"v">> >>, <<CMD_GET, K1>>, <<CMD_RPUSH, K1, <<"a">> >>, <<CMD_LPUSH, K1, <<"a">> >>,
    <<CMD_LRANGE, K1, <<"0">>, <<"-", "1">> >>, <<CMD_LLEN, K1>>, <<CMD_LPOP, K1>> }
KeyCmds == {
    <<CMD_SET, K2, <<"w">>, ARG_PX, <<"1">> >>, <<CMD_SET, K2, <<"w">> >>,
    <<CMD_GET, K1>>, <<CMD_GET, K2>>, <<CMD_RPUSH, K1, <<"a">> >> }
ExpiryCmds == {
    <<CMD_SET, K1, <<"v">>, ARG_PX, <<"0">> >>, <<CMD_SET, K1, <<"v">>, <<"p", "x">>, <<"1">> >>,
    <<CMD_SET, K1, <<"w">> >>, <<CMD_GET, K1>>, <<CMD_RPUSH, K1, <<"a">> >> }
FramingCmds == { <<CMD_PING>>, <<CMD_SET, K1, <<"v">> >>, <<CMD_GET, K1>> }

Wire(cmds) == {encode_array(p) : p \in cmds}
Workloads == {
    Wire(DispatchCmds), Wire(ScalarCmds), Wire(ListCmds), Wire(TypeCmds), Wire(KeyCmds), Wire(ExpiryCmds),
    Wire(FramingCmds) \cup Malformed \cup {EmptyFrame, Truncated, BadTerminator} }

EmptyMap == [k \in {} |-> NoneV]

(* ---------------------------- state ------------------------------------ *)
VARIABLES
    inbuf,        \* [Conns -> bytes]   bytes sent by the client and not yet read
    eof,          \* [Conns -> BOOLEAN] the client has closed its side
    pc,           \* [Conns -> {"read", "exec", "run", "closed"}] position in handle_client
    parts,        \* [Conns -> deque of bytes] the command last returned by parser
    stack,        \* [Conns -> sequence of coroutine frames] handler frame first
    out,          \* [Conns -> sequence of bytes] the replies written to the client
    nread,        \* [Conns -> Nat] number of commands parser has returned
    db,           \* InMemoryDB.db: key -> (value, expiry)
    locks,        \* InMemoryDB.locks: key -> asyncio.Lock (an index of lockobjs)
    lockobjs,     \* the asyncio.Lock objects created so far: their locked flags
    global_lock,  \* InMemoryDB.global_lock (its locked flag)
    exc,          \* [Conns -> name of the exception that ended handle_client, "" if none]
    clock,        \* time.monotonic() in milliseconds
    workload,     \* the frames the clients of this run may send
    sent          \* number of frames and closes the clients have issued

vars == <<inbuf, eof, pc, parts, stack, out, nread, db, locks, lockobjs, global_lock, exc, clock, workload, sent>>

Init ==
    /\ inbuf = [c \in Conns |-> <<>>]
    /\ eof = [c \in Conns |-> FALSE]
    /\ pc = [c \in Conns |-> "read"]
    /\ parts = [c \in Conns |-> <<>>]
    /\ stack = [c \in Conns |-> <<>>]
    /\ out = [c \in Conns |-> <<>>]
    /\ nread = [c \in Conns |-> 0]
    /\ db = EmptyMap
    /\ locks = EmptyMap
    /\ lockobjs = <<>>
    /\ exc = [c \in Conns |-> ""]
    /\ global_lock = FALSE
    /\ clock = 0
    /\ workload \in Workloads
    /\ sent = 0

(* ---------------------------- coroutine frames ------------------------- *)
(* lock is the asyncio.Lock _get_lock returned to the frame, 0 before that *)
Frame(fn, key, arg) ==
    [fn |-> fn, pc |-> "getlock", key |-> key, arg |-> arg, lock |-> 0, cur |-> NoneV, ret |-> NoneV]
HandlerFrame(fn, key) ==
    [fn |-> fn, pc |-> "resume", key |-> key, arg |-> NoneV, lock |-> 0, cur |-> NoneV, ret |-> NoneV]

Call(top, callee, d) == [kind |-> "call", top |-> top, callee |-> callee, db |-> d]
Return(val, d) == [kind |-> "return", val |-> val, db |-> d]
Reply(data) == [kind |-> "reply", data |-> data]
Propagate(e) == [kind |-> "raise", exc |-> e]

(* mutant: the assignment forgets the other keys of the dict *)
DbSet_ForgetsOthers(d, key, entry) == [k \in {key} |-> entry]

(* d[key] = entry *)
DbSet(d, key, entry) == [k \in DOMAIN d \cup {key} |-> IF k = key THEN entry ELSE d[k]]
DbPop(d, key) == [k \in DOMAIN d \ {key} |-> d[k]]

(* ---------------------------- InMemoryDB ------------------------------- *)
(* Each operation is a coroutine: given its frame f (f.pc is the await it  *)
(* resumes from) it runs to its next await and yields a call of another    *)
(* coroutine or its return value (a raised exception is the value Raise).  *)
(* "body" is the first statement inside `async with lock`.                 *)

set_(f) ==
    LET value == IF f.arg.value.t = "list" THEN Deque(f.arg.value.v) ELSE f.arg.value
        expiry_time == IF Truthy(f.arg.expire) THEN Float(clock + f.arg.expire.v) ELSE NoneV
    IN  Return(NoneV, DbSet(db, f.key, Tuple(value, expiry_time)))

delete(f) == Return(NoneV, DbPop(db, f.key))

get_(f) ==
    IF f.pc = "body" THEN
        IF f.key \notin DOMAIN db THEN Return(NoneV, db)
        ELSE LET item == db[f.key]
             IN  IF item.expiry.t = "None" \/ item.expiry.v > clock THEN Return(item, db)
                 ELSE Call([f EXCEPT !.pc = "resume"], Frame("delete", f.key, NoneV), db)
    ELSE IF f.ret.t = "raise" THEN Return(f.ret, db)
    ELSE Return(NoneV, db)

(* expire=max(expiry - time.monotonic(), 0) if expiry else None *)
Remaining(expiry) == IF Truthy(expiry) THEN Float(Max(expiry.v - clock, 0)) ELSE NoneV

(* the deque returned by get_ is the object stored in db: extend and       *)
(* popleft change the stored entry in place                                *)
InPlace(key, items) == IF key \in DOMAIN db THEN DbSet(db, key, Tuple(Deque(items), db[key].expiry)) ELSE db

rpush(f) ==
    IF f.pc = "body" THEN Call([f EXCEPT !.pc = "resume"], Frame("get_", f.key, NoneV), db)
    ELSE IF f.ret.t = "raise" THEN Return(f.ret, db)
    ELSE IF f.pc = "resume" THEN
        LET current == f.ret
        IN  IF Truthy(current) /\ current.value.t # "deque" THEN Return(Raise("ValueError"), db)
            ELSE LET new_deque == (IF Truthy(current) THEN current.value.v ELSE <<>>) \o f.arg
                     expiry == IF Truthy(current) THEN current.expiry ELSE NoneV
                 IN  Call([f EXCEPT !.pc = "resume2", !.cur = Deque(new_deque)],
                          Frame("set_", f.key, [value |-> Deque(new_deque), expire |-> Remaining(expiry)]),
                          IF Truthy(current) THEN InPlace(f.key, new_deque) ELSE db)
    ELSE Return(IntV(Len(f.cur.v)), db)

lrange(f) ==
    IF f.pc = "body" THEN Call([f EXCEPT !.pc = "resume"], Frame("get_", f.key, NoneV), db)
    ELSE IF f.ret.t = "raise" THEN Return(f.ret, db)
    ELSE LET current == f.ret
         IN  IF ~Truthy(current) THEN Return(List(<<>>), db)
             ELSE IF current.value.t # "deque" THEN Return(Raise("ValueError"), db)
             ELSE LET value == current.value.v
                      length == Len(value)
                      start == IF f.arg.start < 0 THEN Max(f.arg.start + length, 0) ELSE f.arg.start
                      end == IF f.arg.end < 0 THEN Min(f.arg.end + length, length - 1) ELSE f.arg.end
                  IN  IF start > end THEN Return(List(<<>>), db)
                      ELSE Return(List(SubSeq(value, start + 1, Min(end + 1, length))), db)

(* `deque` is assigned in lpush (line 179) and so is a local name of the   *)
(* whole function: reading it at line 177 or 179 raises UnboundLocalError. *)
lpush(f) ==
    IF f.pc = "body" THEN Call([f EXCEPT !.pc = "resume"], Frame("get_", f.key, NoneV), db)
    ELSE IF f.ret.t = "raise" THEN Return(f.ret, db)
    ELSE Return(Raise("UnboundLocalError"), db)

llen(f) ==
    IF f.pc = "body" THEN Call([f EXCEPT !.pc = "resume"], Frame("get_", f.key, NoneV), db)
    ELSE IF f.ret.t = "raise" THEN Return(f.ret, db)
    ELSE LET current == f.ret
         IN  IF ~Truthy(current) THEN Return(IntV(0), db)
             ELSE IF current.value.t # "deque" THEN Return(Raise("ValueError"), db)
             ELSE Return(IntV(Len(current.value.v)), db)

lpop(f) ==
    IF f.pc = "body" THEN Call([f EXCEPT !.pc = "resume"], Frame("get_", f.key, NoneV), db)
    ELSE IF f.ret.t = "raise" THEN Return(f.ret, db)
    ELSE IF f.pc = "resume" THEN
        LET current == f.ret
        IN  IF ~Truthy(current) THEN Return(NoneV, db)
            ELSE IF current.value.t # "deque" THEN Return(Raise("ValueError"), db)
            ELSE IF current.value.v = <<>> THEN Return(NoneV, db)
            ELSE LET removed_el == Head(current.value.v)
                     value == Tail(current.value.v)
                     g == [f EXCEPT !.pc = "resume2", !.cur = Bytes(removed_el)]
                 IN  IF value # <<>>
                     THEN Call(g, Frame("set_", f.key, [value |-> Deque(value), expire |-> Remaining(current.expiry)]),
                               InPlace(f.key, value))
                     ELSE Call(g, Frame("delete", f.key, NoneV), InPlace(f.key, value))
    ELSE Return(f.cur, db)

(* ---------------------------- RedisServer handlers --------------------- *)
(* handle_x(p) runs the handler on the command p up to its first await;    *)
(* handle_x_reply(f) resumes it with the Store's result f.ret.  Python     *)
(* parts[i] is p[i + 1].                                                   *)
handle_ping(p) == IF Len(p) = 1 THEN Reply(PONG) ELSE Reply(Err(UNKNOWN_COMMAND_MESSAGE))

handle_echo(p) == IF Len(p) = 2 THEN Reply(encode_bulk_string(p[2])) ELSE Reply(Err(UNKNOWN_COMMAND_MESSAGE))

(* float(parts[4]) / 1000 seconds is ParseInt(parts[4]) milliseconds *)
handle_set(p) ==
    IF Len(p) < 2 THEN Propagate("IndexError")
    ELSE IF Len(p) > 4 /\ upper(p[4]) = ARG_PX THEN
        LET ms == ParseInt(p[5])
        IN  IF ~ms.ok THEN Propagate("ValueError")
            ELSE Call(HandlerFrame("handle_set", p[2]),
                      Frame("set_", p[2], [value |-> Bytes(p[3]), expire |-> Float(ms.n)]), db)
    ELSE IF Len(p) < 3 THEN Propagate("IndexError")
    ELSE Call(HandlerFrame("handle_set", p[2]),
              Frame("set_", p[2], [value |-> Bytes(p[3]), expire |-> NoneV]), db)

handle_set_reply(f) == IF f.ret.t = "raise" THEN Propagate(f.ret.v) ELSE Reply(OK)

handle_get(p) ==
    IF Len(p) < 2 THEN Propagate("IndexError")
    ELSE Call(HandlerFrame("handle_get", p[2]), Frame("get_", p[2], NoneV), db)

(* encode_bulk_string of a deque raises TypeError (bytes + deque) *)
handle_get_reply(f) ==
    IF f.ret.t = "raise" THEN Propagate(f.ret.v)
    ELSE IF ~Truthy(f.ret) THEN Reply(NBS)
    ELSE IF f.ret.value.t # "bytes" THEN Propagate("TypeError")
    ELSE Reply(encode_bulk_string(f.ret.value.v))

handle_rpush(p) ==
    IF Len(p) < 2 THEN Propagate("IndexError")
    ELSE Call(HandlerFrame("handle_rpush", p[2]), Frame("rpush", p[2], Drop(p, 2)), db)

handle_push_reply(f) ==
    IF f.ret.t = "raise" THEN
        IF f.ret.v = "ValueError" THEN Reply(Err(WRONG_VALUE_MESSAGE)) ELSE Propagate(f.ret.v)
    ELSE Reply(encode_integer(f.ret.v))

handle_lrange(p) ==
    IF Len(p) < 2 THEN Propagate("IndexError")
    ELSE IF Len(p) < 3 THEN Propagate("IndexError")
    ELSE IF ~ParseInt(p[3]).ok THEN Reply(Err(INVALID_LITERAL_MESSAGE))
    ELSE IF Len(p) < 4 THEN Propagate("IndexError")
    ELSE IF ~ParseInt(p[4]).ok THEN Reply(Err(INVALID_LITERAL_MESSAGE))
    ELSE Call(HandlerFrame("handle_lrange", p[2]),
              Frame("lrange", p[2], [start |-> ParseInt(p[3]).n, end |-> ParseInt(p[4]).n]), db)

handle_lrange_reply(f) ==
    IF f.ret.t = "raise" THEN
        IF f.ret.v = "ValueError" THEN Reply(Err(WRONG_VALUE_MESSAGE)) ELSE Propagate(f.ret.v)
    ELSE Reply(encode_array(f.ret.v))

handle_lpush(p) ==
    IF Len(p) < 2 THEN Propagate("IndexError")
    ELSE Call(HandlerFrame("handle_lpush", p[2]), Frame("lpush", p[2], Drop(p, 2)), db)

handle_llen(p) ==
    IF Len(p) < 2 THEN Propagate("IndexError")
    ELSE Call(HandlerFrame("handle_llen", p[2]), Frame("llen", p[2], NoneV), db)

handle_lpop(p) ==
    IF Len(p) < 2 THEN Propagate("IndexError")
    ELSE Call(HandlerFrame("handle_lpop", p[2]), Frame("lpop", p[2], NoneV), db)

handle_lpop_reply(f) ==
    IF f.ret.t = "raise" THEN
        IF f.ret.v = "ValueError" THEN Reply(Err(WRONG_VALUE_MESSAGE)) ELSE Propagate(f.ret.v)
    ELSE IF f.ret.t = "None" THEN Reply(NBS)
    ELSE Reply(encode_bulk_string(f.ret.v))

(* execute_command: the handler registered for the upper-cased name *)
execute_command(p) ==
    LET cmd == upper(p[1])
    IN  CASE cmd = CMD_PING -> handle_ping(p)
          [] cmd = CMD_ECHO -> handle_echo(p)
          [] cmd = CMD_SET -> handle_set(p)
          [] cmd = CMD_GET -> handle_get(p)
          [] cmd = CMD_RPUSH -> handle_rpush(p)
          [] cmd = CMD_LRANGE -> handle_lrange(p)
          [] cmd = CMD_LPUSH -> handle_lpush(p)
          [] cmd = CMD_LLEN -> handle_llen(p)
          [] cmd = CMD_LPOP -> handle_lpop(p)
          [] OTHER -> Reply(Err(UNKNOWN_COMMAND_MESSAGE))

(* the coroutine of frame f runs to its next await *)
Run(f) ==
    CASE f.fn = "set_" -> set_(f)
      [] f.fn = "delete" -> delete(f)
      [] f.fn = "get_" -> get_(f)
      [] f.fn = "rpush" -> rpush(f)
      [] f.fn = "lrange" -> lrange(f)
      [] f.fn = "lpush" -> lpush(f)
      [] f.fn = "llen" -> llen(f)
      [] f.fn = "lpop" -> lpop(f)
      [] f.fn = "handle_set" -> handle_set_reply(f)
      [] f.fn = "handle_get" -> handle_get_reply(f)
      [] f.fn \in {"handle_rpush", "handle_lpush", "handle_llen"} -> handle_push_reply(f)
      [] f.fn = "handle_lrange" -> handle_lrange_reply(f)
      [] f.fn = "handle_lpop" -> handle_lpop_reply(f)

(* ---------------------------- actions ---------------------------------- *)
Top(c) == stack[c][Len(stack[c])]
Below(c) == SubSeq(stack[c], 1, Len(stack[c]) - 1)
SetTop(c, f) == [stack EXCEPT ![c] = Append(Below(c), f)]
Running(c, at) == pc[c] = "run" /\ stack[c] # <<>> /\ Top(c).pc \in at

(* the outcome o of running frame f of task c, whose callers are `below`:  *)
(* a return leaves `async with lock` (lock.release()) and hands the value  *)
(* to the caller; a reply is written and handle_client reads on; an        *)
(* exception leaving the handler ends handle_client (writer.close()).      *)
Apply(c, below, f, o) ==
    CASE o.kind = "call" ->
            /\ stack' = [stack EXCEPT ![c] = below \o <<o.top, o.callee>>]
            /\ db' = o.db
            /\ pc' = [pc EXCEPT ![c] = "run"]
            /\ UNCHANGED <<lockobjs, out, exc>>
      [] o.kind = "return" ->
            /\ stack' = [stack EXCEPT ![c] =
                            Append(SubSeq(below, 1, Len(below) - 1), [below[Len(below)] EXCEPT !.ret = o.val])]
            /\ db' = o.db
            /\ lockobjs' = [lockobjs EXCEPT ![f.lock] = FALSE]
            /\ UNCHANGED <<pc, out, exc>>
      [] o.kind = "reply" ->
            /\ stack' = [stack EXCEPT ![c] = <<>>]
            /\ out' = [out EXCEPT ![c] = Append(@, o.data)]
            /\ pc' = [pc EXCEPT ![c] = "read"]
            /\ UNCHANGED <<db, lockobjs, exc>>
      [] o.kind = "raise" ->
            /\ stack' = [stack EXCEPT ![c] = <<>>]
            /\ pc' = [pc EXCEPT ![c] = "closed"]
            /\ exc' = [exc EXCEPT ![c] = o.exc]
            /\ UNCHANGED <<db, lockobjs, out>>

(* a client writes one frame to its socket *)
ClientSend(c, frame) ==
    /\ sent < MaxCmds
    /\ frame \in workload
    /\ pc[c] # "closed"
    /\ ~eof[c]
    /\ inbuf' = [inbuf EXCEPT ![c] = @ \o frame]
    /\ sent' = sent + 1
    /\ UNCHANGED <<eof, pc, parts, stack, out, nread, db, locks, lockobjs, global_lock, exc, clock, workload>>

(* a client closes its socket *)
ClientClose(c) ==
    /\ sent < MaxCmds
    /\ pc[c] # "closed"
    /\ ~eof[c]
    /\ eof' = [eof EXCEPT ![c] = TRUE]
    /\ sent' = sent + 1
    /\ UNCHANGED <<inbuf, pc, parts, stack, out, nread, db, locks, lockobjs, global_lock, exc, clock, workload>>

(* handle_client: parts = await parser(reader); break on None, on an empty *)
(* deque and on any exception parser lets through                          *)
ReadCommand(c) ==
    LET r == parser(inbuf[c], eof[c])
    IN  /\ pc[c] = "read"
        /\ r.st # "wait"
        /\ inbuf' = [inbuf EXCEPT ![c] = r.rest]
        /\ IF r.st = "parts" /\ r.parts # <<>>
           THEN /\ pc' = [pc EXCEPT ![c] = "exec"]
                /\ parts' = [parts EXCEPT ![c] = r.parts]
                /\ nread' = [nread EXCEPT ![c] = @ + 1]
                /\ UNCHANGED exc
           ELSE /\ pc' = [pc EXCEPT ![c] = "closed"]
                /\ exc' = [exc EXCEPT ![c] = IF r.st = "ValueError" THEN "ValueError" ELSE ""]
                /\ UNCHANGED <<parts, nread>>
        /\ UNCHANGED <<eof, stack, out, db, locks, lockobjs, global_lock, clock, workload, sent>>

(* handle_client: await self.execute_command(parts, writer) *)
ExecuteCommand(c) ==
    /\ pc[c] = "exec"
    /\ Apply(c, <<>>, NoneV, execute_command(parts[c]))
    /\ UNCHANGED <<inbuf, eof, parts, nread, locks, global_lock, clock, workload, sent>>

(* _get_lock: async with self.global_lock *)
GetLockEnter(c) ==
    /\ Running(c, {"getlock"})
    /\ ~global_lock
    /\ global_lock' = TRUE
    /\ stack' = SetTop(c, [Top(c) EXCEPT !.pc = "getlock_in"])
    /\ UNCHANGED <<inbuf, eof, pc, parts, out, nread, db, locks, lockobjs, exc, clock, workload, sent>>

(* mutant: the membership test is dropped, every call creates a lock *)
NeedsNewLock_Always(key) == TRUE

(* _get_lock: if key not in self.locks *)
NeedsNewLock(key) == key \notin DOMAIN locks

(* mutant: global_lock is not released on leaving _get_lock *)
GetLockBody_KeepsGlobalLock(c) ==
    /\ Running(c, {"getlock_in"})
    /\ IF NeedsNewLock(Top(c).key)
       THEN /\ lockobjs' = Append(lockobjs, FALSE)
            /\ locks' = DbSet(locks, Top(c).key, Len(lockobjs) + 1)
       ELSE UNCHANGED <<locks, lockobjs>>
    /\ global_lock' = TRUE
    /\ stack' = SetTop(c, [Top(c) EXCEPT !.pc = "acquire", !.lock = locks'[Top(c).key]])
    /\ UNCHANGED <<inbuf, eof, pc, parts, out, nread, db, exc, clock, workload, sent>>

(* _get_lock: fetch or create the lock of the key, leave global_lock *)
GetLockBody(c) ==
    /\ Running(c, {"getlock_in"})
    /\ IF NeedsNewLock(Top(c).key)
       THEN /\ lockobjs' = Append(lockobjs, FALSE)
            /\ locks' = DbSet(locks, Top(c).key, Len(lockobjs) + 1)
       ELSE UNCHANGED <<locks, lockobjs>>
    /\ global_lock' = FALSE
    /\ stack' = SetTop(c, [Top(c) EXCEPT !.pc = "acquire", !.lock = locks'[Top(c).key]])
    /\ UNCHANGED <<inbuf, eof, pc, parts, out, nread, db, exc, clock, workload, sent>>

(* mutant: one lock for the whole table, free when no key lock is held *)
CanAcquire_NoLockHeld(lock) == \A l \in 1..Len(lockobjs) : ~lockobjs[l]

(* async with lock: asyncio.Lock.acquire() returns once the lock is free *)
CanAcquire(lock) == ~lockobjs[lock]

AcquireKeyLock(c) ==
    /\ Running(c, {"acquire"})
    /\ CanAcquire(Top(c).lock)
    /\ lockobjs' = [lockobjs EXCEPT ![Top(c).lock] = TRUE]
    /\ stack' = SetTop(c, [Top(c) EXCEPT !.pc = "body"])
    /\ UNCHANGED <<inbuf, eof, pc, parts, out, nread, db, locks, global_lock, exc, clock, workload, sent>>

(* the statements of a Store operation inside `async with lock`, up to its *)
(* first await or its return                                               *)
Body(c) ==
    /\ Running(c, {"body"})
    /\ Apply(c, Below(c), Top(c), Run(Top(c)))
    /\ UNCHANGED <<inbuf, eof, parts, nread, locks, global_lock, clock, workload, sent>>

(* a coroutine whose awaited call has returned runs on *)
Resume(c) ==
    /\ Running(c, {"resume", "resume2"})
    /\ Apply(c, Below(c), Top(c), Run(Top(c)))
    /\ UNCHANGED <<inbuf, eof, parts, nread, locks, global_lock, clock, workload, sent>>

(* the monotonic clock advances; it is only ever compared with a stored    *)
(* expiry, so time that passes while no entry has one is not counted       *)
Tick ==
    /\ clock < MaxClock
    /\ \E k \in DOMAIN db : db[k].expiry.t = "float"
    /\ clock' = clock + 1
    /\ UNCHANGED <<inbuf, eof, pc, parts, stack, out, nread, db, locks, lockobjs, global_lock, exc, workload, sent>>

Next ==
    \/ \E c \in Conns, frame \in workload : ClientSend(c, frame)
    \/ \E c \in Conns : ClientClose(c)
    \/ \E c \in Conns : ReadCommand(c)
    \/ \E c \in Conns : ExecuteCommand(c)
    \/ \E c \in Conns : GetLockEnter(c)
    \/ \E c \in Conns : GetLockBody(c)
    \/ \E c \in Conns : AcquireKeyLock(c)
    \/ \E c \in Conns : Body(c)
    \/ \E c \in Conns : Resume(c)
    \/ Tick

Spec == Init /\ [][Next]_vars

TypeOK ==
    /\ \A c \in Conns : pc[c] \in {"read", "exec", "run", "closed"}
    /\ \A c \in Conns : (pc[c] = "run") = (stack[c] # <<>>)
    /\ clock \in 0..MaxClock
    /\ sent \in 0..MaxCmds

(* a task that is executing a command takes its next step *)
TaskNext ==
    \E c \in Conns :
        \/ ExecuteCommand(c)
        \/ GetLockEnter(c)
        \/ GetLockBody(c)
        \/ AcquireKeyLock(c)
        \/ Body(c)
        \/ Resume(c)

(* the event loop runs a task whenever one is ready to run.  A task that   *)
(* awaits the network is ready when the transport delivers, which the      *)
(* server does not control: nothing is assumed of reads, clients or clock. *)
Fairness == WF_vars(TaskNext)

FairSpec == Init /\ [][Next]_vars /\ Fairness

(* the runs whose clients work on the two keys k and j *)
KeyInit == Init /\ workload = Wire(KeyCmds)
KeyFairSpec == KeyInit /\ [][Next]_vars /\ Fairness

(* ---------------------------- vocabulary of the properties ------------- *)
Keys == {K1, K2}
StoreFns == {"set_", "delete", "get_", "rpush", "lrange", "lpush", "llen", "lpop"}

(* task c is inside `async with lock` of a Store operation on key *)
InCritical(c, key) ==
    \E i \in 1..Len(stack[c]) :
        /\ stack[c][i].fn \in StoreFns
        /\ stack[c][i].key = key
        /\ stack[c][i].pc \in {"body", "resume", "resume2"}

(* task c is suspended in `async with lock` of an operation on key *)
WaitsFor(c, key) == Running(c, {"acquire"}) /\ Top(c).key = key

EntryOf(d, key) == IF key \in DOMAIN d THEN d[key] ELSE NoneV
LastReply(c) == out[c][Len(out[c])]

(* the clients send nothing more and every other connection is idle with   *)
(* nothing left to read: from here on only task c runs                     *)
Alone(c) ==
    /\ sent = MaxCmds
    /\ \A d \in Conns \ {c} : pc[d] \in {"read", "closed"} /\ inbuf[d] = <<>>

(* ---------------------------- C1 --------------------------------------- *)
(* C1: under fair scheduling every command that has called the Store       *)
(* eventually gets its reply and its connection reads the next command.    *)
C1_NoCommandBlocks == \A c \in Conns : (pc[c] = "run") ~> (pc[c] = "read")

(* ---------------------------- C2 --------------------------------------- *)
(* C2: operations on one key are mutually exclusive: at most one task is   *)
(* inside the locked section of a key, and the Entry of a key changes only *)
(* in a step of the task that is inside the locked section of that key, so *)
(* every operation reads the Entry as the previous lock holder left it.    *)
MutexInv ==
    \A key \in Keys : \A c, d \in Conns : InCritical(c, key) /\ InCritical(d, key) => c = d

EntryWrittenUnderLock ==
    \A key \in Keys :
        EntryOf(db', key) # EntryOf(db, key) => \E c \in Conns : InCritical(c, key) /\ stack'[c] # stack[c]

C2_SameKeyExclusive == [](MutexInv) /\ [][EntryWrittenUnderLock]_vars

(* one task is inside the locked section of k while another waits for it *)
C2_Witness == \E c, d \in Conns : c # d /\ InCritical(c, K1) /\ WaitsFor(d, K1) /\ ~CanAcquire(Top(d).lock)

(* ---------------------------- C3 --------------------------------------- *)
RPUSH_a == <<CMD_RPUSH, K1, <<"a">> >>
RPUSH_b == <<CMD_RPUSH, K1, <<"b">> >>

(* connections 1 and 2 have each received one RPUSH on the absent key k *)
C3_Pushing ==
    /\ sent = MaxCmds
    /\ pc[1] = "exec" /\ parts[1] = RPUSH_a
    /\ pc[2] = "exec" /\ parts[2] = RPUSH_b
    /\ K1 \notin DOMAIN db

C3_Pushed ==
    /\ pc[1] = "read" /\ pc[2] = "read"
    /\ K1 \in DOMAIN db
    /\ db[K1].value \in {Deque(<< <<"a">>, <<"b">> >>), Deque(<< <<"b">>, <<"a">> >>)}

(* C3: concurrent RPUSH k a and RPUSH k b on an absent key both complete   *)
(* and leave a list of exactly the two elements.                           *)
C3_ConcurrentRpush == C3_Pushing ~> C3_Pushed

(* ---------------------------- C4 --------------------------------------- *)
ScalarV == Tuple(Bytes(<<"v">>), NoneV)
ListCmdsOnK1 == {
    <<CMD_RPUSH, K1, <<"a">> >>, <<CMD_LPUSH, K1, <<"a">> >>,
    <<CMD_LRANGE, K1, <<"0">>, <<"-", "1">> >>, <<CMD_LLEN, K1>>, <<CMD_LPOP, K1>> }

C4_ListCmdOnScalar(c) ==
    /\ Alone(c) /\ inbuf[c] = <<>>
    /\ pc[c] = "exec" /\ parts[c] \in ListCmdsOnK1
    /\ EntryOf(db, K1) = ScalarV

C4_Rejected(c) ==
    /\ pc[c] = "read"
    /\ out[c] # <<>> /\ LastReply(c) = Err(WRONG_VALUE_MESSAGE)
    /\ EntryOf(db, K1) = ScalarV

(* C4: a list command on a key that holds the scalar v is answered with    *)
(* the type-mismatch error and leaves the Entry of the key unchanged.      *)
C4_TypeIsolation == \A c \in Conns : C4_ListCmdOnScalar(c) ~> C4_Rejected(c)

(* ---------------------------- C5 --------------------------------------- *)
C5_GetExpired(c) ==
    /\ Alone(c) /\ inbuf[c] = <<>>
    /\ pc[c] = "exec" /\ parts[c] = <<CMD_GET, K1>>
    /\ K1 \in DOMAIN db /\ db[K1].expiry.t = "float" /\ db[K1].expiry.v < clock

C5_Evicted(c) ==
    /\ pc[c] = "read"
    /\ out[c] # <<>> /\ LastReply(c) = NBS
    /\ K1 \notin DOMAIN db

(* C5: a GET of a key whose expiry the clock has passed replies with the   *)
(* null bulk string and removes the Entry from the Store.                  *)
C5_LazyExpiry == \A c \in Conns : C5_GetExpired(c) ~> C5_Evicted(c)

(* ---------------------------- C6 --------------------------------------- *)
(* C6: whenever a connection is between commands it has written exactly    *)
(* one reply per command received, the last one answering the last         *)
(* command (PONG for PING, the bulk string m for ECHO m).                  *)
C6_PipeliningOrder ==
    \A c \in Conns :
        pc[c] \in {"read", "closed"} /\ nread[c] > 0 =>
            /\ Len(out[c]) = nread[c]
            /\ parts[c] = <<CMD_PING>> => LastReply(c) = PONG
            /\ Len(parts[c]) = 2 /\ parts[c][1] = CMD_ECHO => LastReply(c) = encode_bulk_string(parts[c][2])

(* ---------------------------- C7 --------------------------------------- *)
StartsWith(buf, frame) == Len(buf) >= Len(frame) /\ SubSeq(buf, 1, Len(frame)) = frame

(* the next bytes connection c reads are a malformed frame *)
MalformedNext(c) == pc[c] = "read" /\ \E frame \in Malformed : StartsWith(inbuf[c], frame)

C7_Isolated(c) ==
    /\ pc'[c] = "closed"
    /\ out' = out
    /\ db' = db /\ locks' = locks /\ lockobjs' = lockobjs /\ global_lock' = global_lock
    /\ stack' = stack /\ stack[c] = <<>>
    /\ \A d \in Conns \ {c} : pc'[d] = pc[d] /\ inbuf'[d] = inbuf[d] /\ eof'[d] = eof[d]

(* C7: the step in which a connection reads a malformed frame closes that  *)
(* connection, writes no reply, leaves the Store and its locks unchanged   *)
(* and leaves every other connection as it was, with its input still to be *)
(* served; the closed connection is inside no Store operation.             *)
C7_MalformedFrameIsolation ==
    [][\A c \in Conns : MalformedNext(c) /\ pc'[c] # pc[c] => C7_Isolated(c)]_vars

(* a connection was closed by a bad length without having been sent a      *)
(* reply, and another connection has been answered and reads on            *)
C7_Witness ==
    \E c, d \in Conns :
        /\ c # d
        /\ pc[c] = "closed" /\ exc[c] = "ValueError" /\ nread[c] = 0 /\ out[c] = <<>> /\ ~eof[c]
        /\ pc[d] = "read" /\ nread[d] > 0 /\ Len(out[d]) = nread[d]

(* ---------------------------- C8, C9 ----------------------------------- *)
Recognized == {CMD_PING, CMD_ECHO, CMD_SET, CMD_GET, CMD_RPUSH, CMD_LRANGE, CMD_LPUSH, CMD_LLEN, CMD_LPOP}

(* the arity the command table of the specification gives each command *)
ArityOK(p) ==
    LET cmd == upper(p[1])
    IN  CASE cmd = CMD_PING -> Len(p) = 1
          [] cmd \in {CMD_ECHO, CMD_GET, CMD_LLEN, CMD_LPOP} -> Len(p) = 2
          [] cmd = CMD_SET -> Len(p) = 3 \/ (Len(p) = 5 /\ upper(p[4]) = ARG_PX)
          [] cmd \in {CMD_RPUSH, CMD_LPUSH} -> Len(p) >= 3
          [] cmd = CMD_LRANGE -> Len(p) = 4
          [] OTHER -> FALSE

(* a non-integer LRANGE bound or PX milliseconds *)
InvalidArgument(p) ==
    LET cmd == upper(p[1])
    IN  \/ cmd = CMD_SET /\ Len(p) = 5 /\ upper(p[4]) = ARG_PX /\ ~ParseInt(p[5]).ok
        \/ cmd = CMD_LRANGE /\ Len(p) = 4 /\ (~ParseInt(p[3]).ok \/ ~ParseInt(p[4]).ok)

IsErrReply(r) == StartsWith(r, <<"-", "E", "R", "R", " ">>)

(* C8: a command with an unrecognized name, a wrong arity or a non-integer *)
(* numeric argument is answered with a -ERR reply and its connection goes  *)
(* on to read the next command.                                            *)
C8_ErrorsKeepConnection ==
    [][\A c \in Conns :
          /\ pc[c] = "exec"
          /\ upper(parts[c][1]) \notin Recognized \/ ~ArityOK(parts[c]) \/ InvalidArgument(parts[c])
          /\ pc'[c] # "exec"
          => /\ pc'[c] = "read"
             /\ Len(out'[c]) = Len(out[c]) + 1
             /\ IsErrReply(out'[c][Len(out'[c])])]_vars

(* C9: a recognized command with the wrong number of tokens is answered    *)
(* with the UnknownCommand error without any Store operation being called, *)
(* and the Store is unchanged.                                             *)
C9_ArityValidated ==
    [][\A c \in Conns :
          /\ pc[c] = "exec"
          /\ upper(parts[c][1]) \in Recognized /\ ~ArityOK(parts[c])
          /\ pc'[c] # "exec"
          => /\ out'[c] = Append(out[c], Err(UNKNOWN_COMMAND_MESSAGE))
             /\ stack'[c] = <<>>
             /\ db' = db]_vars

(* ---------------------------- C10 -------------------------------------- *)
NoEmptyList == \A key \in DOMAIN db : db[key].value.t = "deque" => db[key].value.v # <<>>

C10_PushFirst(c) ==
    /\ Alone(c)
    /\ pc[c] = "exec" /\ parts[c] = RPUSH_a
    /\ K1 \notin DOMAIN db

C10_Pushed(c) ==
    /\ out[c] # <<>> /\ LastReply(c) = encode_integer(1)
    /\ EntryOf(db, K1) = Tuple(Deque(<< <<"a">> >>), NoneV)

C10_PopLast(c) ==
    /\ Alone(c)
    /\ pc[c] = "exec" /\ parts[c] = <<CMD_LPOP, K1>>
    /\ EntryOf(db, K1) = Tuple(Deque(<< <<"a">> >>), NoneV)

C10_Popped(c) ==
    /\ pc[c] = "read"
    /\ out[c] # <<>> /\ LastReply(c) = encode_bulk_string(<<"a">>)
    /\ K1 \notin DOMAIN db

(* C10: no key ever holds a zero-length list; RPUSH k a on an absent key   *)
(* stores the list [a], and LPOP k on that list returns a and deletes k.   *)
C10_ListEmptiness ==
    /\ []NoEmptyList
    /\ \A c \in Conns : C10_PushFirst(c) ~> C10_Pushed(c)
    /\ \A c \in Conns : C10_PopLast(c) ~> C10_Popped(c)

(* ---------------------------- C11 -------------------------------------- *)
(* the inclusive slice of the specification: a negative start becomes      *)
(* max(start + L, 0), a negative end becomes end + L clamped to L - 1      *)
C11_Slice(value, start, end) ==
    LET L == Len(value)
        s1 == IF start < 0 THEN Max(start + L, 0) ELSE start
        e1 == IF end < 0 THEN Min(end + L, L - 1) ELSE end
    IN  IF s1 > e1 \/ s1 >= L THEN <<>> ELSE SubSeq(value, s1 + 1, Min(e1, L - 1) + 1)

(* the list an unexpired Entry of key holds, the empty list otherwise *)
C11_ListOf(key) ==
    IF key \in DOMAIN db /\ db[key].value.t = "deque" /\ (db[key].expiry.t = "None" \/ db[key].expiry.v > clock)
    THEN db[key].value.v ELSE <<>>

(* task c, alone, executes LRANGE k start end with both bounds integers,   *)
(* and k holds no scalar                                                   *)
C11_Ranging(c) ==
    /\ Alone(c)
    /\ pc[c] = "exec"
    /\ Len(parts[c]) = 4 /\ parts[c][1] = CMD_LRANGE /\ parts[c][2] = K1
    /\ ParseInt(parts[c][3]).ok /\ ParseInt(parts[c][4]).ok
    /\ (K1 \in DOMAIN db => db[K1].value.t = "deque")

C11_Ranged(c) ==
    /\ pc[c] = "read"
    /\ out[c] # <<>>
    /\ Len(parts[c]) = 4 /\ parts[c][1] = CMD_LRANGE
    /\ LastReply(c) = encode_array(C11_Slice(C11_ListOf(K1), ParseInt(parts[c][3]).n, ParseInt(parts[c][4]).n))

(* C11: LRANGE k start end is answered with the normalized inclusive slice *)
(* of the list of k, the empty array when k is absent or expired.          *)
C11_LrangeNormalization == \A c \in Conns : C11_Ranging(c) ~> C11_Ranged(c)

(* ---------------------------- C12 -------------------------------------- *)
(* task c, alone, executes LPUSH k i1 .. in on the absent key k *)
C12_Pushing(c) ==
    /\ Alone(c)
    /\ pc[c] = "exec"
    /\ Len(parts[c]) >= 3 /\ parts[c][1] = CMD_LPUSH /\ parts[c][2] = K1
    /\ K1 \notin DOMAIN db

C12_Pushed(c) ==
    /\ pc[c] = "read"
    /\ Len(parts[c]) >= 3 /\ parts[c][1] = CMD_LPUSH
    /\ out[c] # <<>> /\ LastReply(c) = encode_integer(Len(parts[c]) - 2)
    /\ K1 \in DOMAIN db /\ db[K1].value = Deque(Reverse(Drop(parts[c], 2)))

(* C12: LPUSH k i1 .. in on an absent key stores the list [in, .., i1] and *)
(* replies with n.                                                         *)
C12_LpushOrder == \A c \in Conns : C12_Pushing(c) ~> C12_Pushed(c)

(* ---------------------------- C13 -------------------------------------- *)
(* the set_ called by handle_set of task c writes its Entry in this step *)
C13_Setting(c) ==
    /\ Running(c, {"body"})
    /\ Top(c).fn = "set_" /\ stack[c][1].fn = "handle_set"
    /\ stack'[c] # stack[c]

(* the expiry SET gives its Entry: now + ms when the 4th token is PX in    *)
(* any letter case and the 5th token is a non-negative ms, none otherwise  *)
C13_Expiry(p) ==
    IF Len(p) >= 5 /\ upper(p[4]) = ARG_PX /\ ParseInt(p[5]).ok /\ ParseInt(p[5]).n >= 0
    THEN Float(clock + ParseInt(p[5]).n) ELSE NoneV

(* C13: the write of SET key value [PX ms] replaces the Entry of key by    *)
(* the scalar value with expiry now + ms for every non-negative ms,        *)
(* 0 included, and with no expiry when no PX ms is given.                  *)
C13_SetReplaces ==
    [][\A c \in Conns :
          C13_Setting(c) => EntryOf(db', parts[c][2]) = Tuple(Bytes(parts[c][3]), C13_Expiry(parts[c]))]_vars

(* ---------------------------- C14 -------------------------------------- *)
(* A List Entry exists only once a push on an absent key has completed.    *)
(* task c, alone, executes RPUSH k a on the absent key k with RPUSH k b    *)
(* pipelined behind it                                                     *)
C14_PushingTwice(c) ==
    /\ Alone(c)
    /\ pc[c] = "exec" /\ parts[c] = RPUSH_a
    /\ inbuf[c] = encode_array(RPUSH_b)
    /\ K1 \notin DOMAIN db

(* the second push has been answered and the list is still without expiry *)
C14_Preserved(c) ==
    /\ pc[c] = "read" /\ parts[c] = RPUSH_b
    /\ out[c] # <<>> /\ LastReply(c) = encode_integer(2)
    /\ EntryOf(db, K1) = Tuple(Deque(<< <<"a">>, <<"b">> >>), NoneV)

(* C14: a push on an existing list leaves the expiry of its Entry as it    *)
(* was: after RPUSH k a and RPUSH k b on an absent key the Entry of k is   *)
(* the list [a, b] without expiry.                                         *)
C14_ListMutationKeepsExpiry == \A c \in Conns : C14_PushingTwice(c) ~> C14_Preserved(c)

(* ---------------------------- C15 -------------------------------------- *)
(* encode_bulk_string and read_bulk_string on their own: the stream of one *)
(* connection holds the encoding of a byte string s followed by the first  *)
(* bytes of whatever comes next, and read_bulk_string is applied to it.    *)
ByteStrings == UNION {[1..n -> {"a", "CR", "LF", "NUL"}] : n \in 0..MaxLen}
Followers == {<<>>, <<"$">>, CRLF, encode_bulk_string(<<"a">>)}

RoundTripInit ==
    /\ \E d \in Conns, s \in ByteStrings, t \in Followers :
          inbuf = [c \in Conns |-> IF c = d THEN encode_bulk_string(s) \o t ELSE <<>>]
    /\ eof \in [Conns -> BOOLEAN]
    /\ pc = [c \in Conns |-> "read"]
    /\ parts = [c \in Conns |-> <<>>]
    /\ stack = [c \in Conns |-> <<>>]
    /\ out = [c \in Conns |-> <<>>]
    /\ nread = [c \in Conns |-> 0]
    /\ db = EmptyMap
    /\ locks = EmptyMap
    /\ lockobjs = <<>>
    /\ exc = [c \in Conns |-> ""]
    /\ global_lock = FALSE
    /\ clock = 0
    /\ workload = {}
    /\ sent = 0

(* data = await read_bulk_string(reader); parts.append(data) *)
ReadBulkString(c) ==
    LET b == read_bulk_string(inbuf[c], eof[c])
    IN  /\ pc[c] = "read"
        /\ b.st # "wait"
        /\ inbuf' = [inbuf EXCEPT ![c] = b.rest]
        /\ IF b.st = "data"
           THEN /\ parts' = [parts EXCEPT ![c] = Append(@, b.data)]
                /\ UNCHANGED <<pc, exc>>
           ELSE /\ pc' = [pc EXCEPT ![c] = "closed"]
                /\ exc' = [exc EXCEPT ![c] = IF b.st = "ValueError" THEN "ValueError" ELSE ""]
                /\ UNCHANGED parts
        /\ UNCHANGED <<eof, stack, out, nread, db, locks, lockobjs, global_lock, clock, workload, sent>>

RoundTripNext == \E c \in Conns : ReadBulkString(c)

RoundTripSpec == RoundTripInit /\ [][RoundTripNext]_vars

(* C15: read_bulk_string applied to encode_bulk_string(s) followed by any  *)
(* bytes t returns exactly s and leaves exactly t in the stream, for every *)
(* s, the empty string and strings with CR, LF and NUL bytes included.     *)
C15_BulkRoundTrip ==
    [][\A c \in Conns : \A s \in ByteStrings, t \in Followers :
          /\ inbuf[c] = encode_bulk_string(s) \o t
          /\ parts[c] = <<>>
          /\ (pc'[c] # pc[c] \/ parts'[c] # parts[c] \/ inbuf'[c] # inbuf[c])
          => parts'[c] = <<s>> /\ inbuf'[c] = t /\ pc'[c] = "read"]_vars

(* the string CR LF has been decoded and the stream is at the next frame *)
C15_Witness ==
    \E c \in Conns : parts[c] = << CRLF >> /\ inbuf[c] = encode_bulk_string(<<"a">>) /\ pc[c] = "read"

(* ---------------------------- C16 -------------------------------------- *)
(* frame i of task c is inside `async with lock` of a Store operation *)
C16_Holds(c, i) == stack[c][i].fn \in StoreFns /\ stack[c][i].pc \in {"body", "resume", "resume2"}

(* task c is inside `async with self.global_lock` *)
C16_HoldsTableLock(c) == stack[c] # <<>> /\ Top(c).pc = "getlock_in"

(* task c awaits the network (the next frame, or the flush of a reply,     *)
(* after which it reads on) or its connection has been torn down           *)
C16_AtNetwork(c) == pc[c] \in {"read", "closed"}

C16_NoLockOutsideStore ==
    /\ \A c \in Conns : C16_AtNetwork(c) => stack[c] = <<>>
    /\ global_lock => \E c \in Conns : ~C16_AtNetwork(c) /\ C16_HoldsTableLock(c)
    /\ \A l \in 1..Len(lockobjs) :
          lockobjs[l] => \E c \in Conns : ~C16_AtNetwork(c) /\ \E i \in 1..Len(stack[c]) :
                                              C16_Holds(c, i) /\ stack[c][i].lock = l

(* a Store operation of task c returns to its caller in this step *)
C16_Returns(c) ==
    /\ stack[c] # <<>> /\ Top(c).fn \in StoreFns
    /\ Len(stack'[c]) < Len(stack[c])

SET_K2 == <<CMD_SET, K2, <<"w">> >>

(* task c is stuck in an operation on key: it waits for the lock of key    *)
(* that its own operation holds                                            *)
C17_Stuck(c, key) == InCritical(c, key) /\ WaitsFor(c, key)

C17_OnlySameKeyBlocks ==
    /\ \A k1, k2 \in DOMAIN locks : k1 # k2 => locks[k1] # locks[k2]
    /\ \A c \in Conns : C16_HoldsTableLock(c) => ~\E i \in 1..Len(stack[c]) : stack[c][i].pc = "acquire"
    /\ \A c \in Conns : \A key \in Keys :
          WaitsFor(c, key) /\ ~CanAcquire(Top(c).lock) => \E d \in Conns : InCritical(d, key)

(* C17: different keys have different locks, the table-lock is not held    *)
(* while a per-key lock is waited on, a task that cannot take the lock of  *)
(* its key is kept out by an operation on that same key, and SET j w is    *)
(* answered whatever operations on the other key k are in flight or stuck, *)
(* unless another task is stuck in an operation on j itself.               *)
C17_KeyIndependence ==
    /\ []C17_OnlySameKeyBlocks
    /\ \A c \in Conns :
          (pc[c] = "exec" /\ parts[c] = SET_K2)
              ~> \/ pc[c] = "read" /\ parts[c] = SET_K2 /\ LastReply(c) = OK
                 \/ \E d \in Conns \ {c} : C17_Stuck(d, K2)

(* an operation on j is inside its locked section while another task is    *)
(* stuck in its operation on k                                             *)
C17_Witness == \E c, d \in Conns : c # d /\ C17_Stuck(c, K1) /\ InCritical(d, K2)

(* ---------------------------- C18 -------------------------------------- *)
(* task c reads, in this step, the frame *0 that is next in its stream *)
C18_ReadsEmptyFrame(c) ==
    /\ pc[c] = "read"
    /\ StartsWith(inbuf[c], EmptyFrame)
    /\ sent' = sent
    /\ inbuf'[c] # inbuf[c]

(* C18: reading the frame *0 writes no reply, leaves the Store unchanged   *)
(* and leaves the connection open, reading the frame that follows.         *)
C18_EmptyCommandIgnored ==
    [][\A c \in Conns :
          C18_ReadsEmptyFrame(c) =>
              /\ pc'[c] = "read"
              /\ inbuf'[c] = Drop(inbuf[c], Len(EmptyFrame))
              /\ out' = out /\ db' = db]_vars

(* ---------------------------- C19 -------------------------------------- *)
(* task c reads, in this step, a frame whose bulk string is followed by    *)
(* two bytes other than CR LF                                              *)
C19_ReadsBadTerminator(c) ==
    /\ pc[c] = "read"
    /\ StartsWith(inbuf[c], BadTerminator)
    /\ sent' = sent
    /\ inbuf'[c] # inbuf[c]

(* C19: a frame whose payload is not followed by CR LF is a protocol       *)
(* error: no command is returned or executed and the connection is closed. *)
C19_TerminatorChecked ==
    [][\A c \in Conns :
          C19_ReadsBadTerminator(c) =>
              /\ pc'[c] = "closed"
              /\ parts'[c] = parts[c] /\ nread'[c] = nread[c]]_vars

(* ---------------------------- C20 -------------------------------------- *)
C20_Expired(key) == key \in DOMAIN db /\ db[key].expiry.t = "float" /\ db[key].expiry.v <= clock

(* task c, alone, executes RPUSH or LPUSH on k, which is absent or holds   *)
(* an expired Entry                                                        *)
C20_Pushing(c) ==
    /\ Alone(c)
    /\ pc[c] = "exec"
    /\ Len(parts[c]) >= 3 /\ parts[c][1] \in {CMD_RPUSH, CMD_LPUSH} /\ parts[c][2] = K1
    /\ (K1 \notin DOMAIN db \/ C20_Expired(K1))

C20_Created(c) ==
    /\ pc[c] = "read"
    /\ Len(parts[c]) >= 3 /\ parts[c][1] \in {CMD_RPUSH, CMD_LPUSH}
    /\ out[c] # <<>> /\ LastReply(c) = encode_integer(Len(parts[c]) - 2)
    /\ EntryOf(db, K1) =
          Tuple(Deque(IF parts[c][1] = CMD_RPUSH THEN Drop(parts[c], 2) ELSE Reverse(Drop(parts[c], 2))), NoneV)

(* C20: a push on an absent key or on a key whose Entry has expired is     *)
(* answered with the number of pushed items and leaves a List Entry        *)
(* without expiry that holds only the pushed items.                        *)
C20_PushCreatesList == \A c \in Conns : C20_Pushing(c) ~> C20_Created(c)

(* ---------------------------- C21 -------------------------------------- *)
LPOP_K1 == <<CMD_LPOP, K1>>

(* task c, alone, executes LPOP k; k is absent, holds an expired Entry or  *)
(* holds a non-empty list                                                  *)
C21_Popping(c) ==
    /\ Alone(c)
    /\ pc[c] = "exec" /\ parts[c] = LPOP_K1
    /\ (K1 \notin DOMAIN db \/ C20_Expired(K1) \/ C11_ListOf(K1) # <<>>)

(* LPOP k has been answered with the null bulk string, or with an element  *)
(* that is no longer the head of the list of k                             *)
C21_Popped(c) ==
    /\ pc[c] = "read" /\ parts[c] = LPOP_K1
    /\ out[c] # <<>>
    /\ \/ LastReply(c) = NBS /\ C11_ListOf(K1) = <<>>
       \/ \E el \in {<<"a">>, <<"b">>} :
             /\ LastReply(c) = encode_bulk_string(el)
             /\ (K1 \in DOMAIN db => db[K1].value.t = "deque")

(* C21: LPOP k is answered: with the null bulk string when k is absent or  *)
(* expired, with the head element when k holds a non-empty list.           *)
C21_LpopHead == \A c \in Conns : C21_Popping(c) ~> C21_Popped(c)

(* ---------------------------- C22 -------------------------------------- *)
(* every key of the lock table keeps its lock, and no lock object is lost *)
C22_LocksKept ==
    /\ \A key \in DOMAIN locks : key \in DOMAIN locks' /\ locks'[key] = locks[key]
    /\ Len(lockobjs') >= Len(lockobjs)

(* every Store operation that has left _get_lock uses the lock the table   *)
(* has for its key                                                         *)
C22_SameLock ==
    \A c \in Conns : \A i \in 1..Len(stack[c]) :
        stack[c][i].fn \in StoreFns /\ stack[c][i].pc \notin {"getlock", "getlock_in"}
            => stack[c][i].key \in DOMAIN locks /\ stack[c][i].lock = locks[stack[c][i].key]

(* C22: no step removes a key from the lock table or gives it another      *)
(* lock, and every operation on a key uses the lock the table has for it.  *)
C22_LockTableMonotonic == [][C22_LocksKept]_vars /\ []C22_SameLock

(* the Entry of k has expired and the delete called for it has been given  *)
(* the lock that the get_ calling it holds                                 *)
C22_Witness ==
    \E c \in Conns :
        /\ C20_Expired(K1)
        /\ Running(c, {"acquire"}) /\ Top(c).fn = "delete" /\ Top(c).key = K1
        /\ Len(stack[c]) >= 2 /\ stack[c][Len(stack[c]) - 1].fn = "get_"
        /\ Top(c).lock = stack[c][Len(stack[c]) - 1].lock
        /\ Top(c).lock = locks[K1]

(* ---------------------------- C23 -------------------------------------- *)
(* frame j of task c awaits the acquisition of the lock that frame i of    *)
(* the same task, one of its callers, holds                                *)
C23_Reacquires(c, i, j) ==
    /\ i < j
    /\ C16_Holds(c, i)
    /\ stack[c][j].fn \in StoreFns /\ stack[c][j].pc = "acquire"
    /\ stack[c][j].lock = stack[c][i].lock

(* C23: no task awaits the acquisition of a per-key lock that one of its   *)
(* own Store operations already holds.                                     *)
C23_NoSelfReacquisition ==
    \A c \in Conns : \A i, j \in 1..Len(stack[c]) : ~C23_Reacquires(c, i, j)

====
